---- MODULE Spec2Model ----
(***************************************************************************)
(* Trafilytics (src/src/main.cpp): the anonymise / deduplicate / aggregate  *)
(* / day-rollover state machine driven by setup() and loop().               *)
(*                                                                          *)
(* Strings are sequences of one-character strings, so that indexOf,         *)
(* substring and concatenation are modelled as the code performs them.      *)
(* The 64-bit FNV-1a hash is computed on four 16-bit limbs (least           *)
(* significant first), which keeps every intermediate value in range.       *)
(***************************************************************************)
EXTENDS Integers, Sequences, FiniteSets, TLC

\* ------------------------------------------------------------------ bounds
\* Scaled configuration: main.cpp:42 sets SCANS_PER_UPLOAD to 10 and
\* main.cpp:43 sets MAX_NETWORKS_PER_SCAN to 20; the model runs the same
\* code with a shorter cycle and a smaller cap.
SCANS_PER_UPLOAD == 2
MAX_NETWORKS_PER_SCAN == 2
\* scans one process lifetime performs before the model stops scanning
MaxScans == 5
\* the positive value the remote store may hold for daily_impressions
RemoteVal == 4

\* WiFi.scanNetworks() results: -1 is the driver's failure code, the others
\* are detection counts; one value lies above the cap.
MaxFound == MAX_NETWORKS_PER_SCAN + 1
ScanResults == (-1) .. MaxFound

\* ----------------------------------------------------------------- strings
Str_Empty == << >>
Str_TimeUnavailable ==
    <<"T","i","m","e"," ","u","n","a","v","a","i","l","a","b","l","e">>
Str_Unknown == <<"U","n","k","n","o","w","n">>

\* String::indexOf(' '), 0-based, -1 when absent
RECURSIVE IndexFrom(_, _, _)
IndexFrom(s, c, k) ==
    IF k > Len(s) THEN -1
    ELSE IF s[k] = c THEN k - 1
    ELSE IndexFrom(s, c, k + 1)

indexOf(s, c) == IndexFrom(s, c, 1)

\* String::substring(from, to): 0-based, to exclusive, clamped to the length
substring(s, from, to) ==
    LET t == IF to > Len(s) THEN Len(s) ELSE to
    IN  IF from >= t THEN << >> ELSE SubSeq(s, from + 1, t)

\* the text between the quotes of the modem's +CCLK reply; the empty
\* string stands for a reply without a quoted time (all three attempts)
ClockDay1 ==
    <<"2","5","/","1","2","/","0","2",",","1","0",":","3","0",":","4","5","+","0","0">>
ClockDay2 ==
    <<"2","5","/","1","2","/","0","3",",","1","0",":","3","0",":","4","5","+","0","0">>
ClockReplies == {Str_Empty, ClockDay1, ClockDay2}

getTimeFromSIM7600(timeStr) ==
    IF Len(timeStr) >= 17
    THEN <<"2","0">> \o substring(timeStr, 0, 2) \o <<"-">>
         \o substring(timeStr, 3, 5) \o <<"-">>
         \o substring(timeStr, 6, 8) \o <<" ">>
         \o substring(timeStr, 9, 17) \o <<" ","U","T","C">>
    ELSE Str_TimeUnavailable

extractDateFromDateTime(dateTime) ==
    LET spaceIndex == indexOf(dateTime, " ")
    IN  IF spaceIndex > 0 THEN substring(dateTime, 0, spaceIndex)
        ELSE Str_Unknown

\* ------------------------------------------------------------------ hashing
Limb == 65536

RECURSIVE XorBits(_, _, _)
XorBits(a, b, n) ==
    IF n = 0 THEN 0
    ELSE (((a % 2) + (b % 2)) % 2) + 2 * XorBits(a \div 2, b \div 2, n - 1)

\* hash ^= byte : only the low byte of the low limb changes
XorByte(h, byte) ==
    <<(h[1] \div 256) * 256 + XorBits(h[1] % 256, byte, 8), h[2], h[3], h[4]>>

\* hash *= FNV_PRIME (0x100000001b3 = 2^40 + 0x1b3), modulo 2^64
MulPrime(h) ==
    LET s2 == h[1] * 256
        s3 == h[2] * 256 + (s2 \div Limb)
        r1 == h[1] * 435
        r2 == h[2] * 435 + (r1 \div Limb)
        r3 == h[3] * 435 + (s2 % Limb) + (r2 \div Limb)
        r4 == h[4] * 435 + (s3 % Limb) + (r3 \div Limb)
    IN  <<r1 % Limb, r2 % Limb, r3 % Limb, r4 % Limb>>

\* FNV_OFFSET_BASIS 0xcbf29ce484222325
FNV_OFFSET_BASIS == <<8997, 33826, 40164, 52210>>

RECURSIVE Fold(_, _, _)
Fold(h, bytes, k) ==
    IF k > Len(bytes) THEN h
    ELSE Fold(MulPrime(XorByte(h, bytes[k])), bytes, k + 1)

\* (uint8_t*)&ephemeralSalt on the little-endian target
saltBytes(salt) ==
    <<salt % 256, (salt \div 256) % 256, (salt \div 65536) % 256,
      (salt \div 16777216) % 256>>

HexDigit ==
    <<"0","1","2","3","4","5","6","7","8","9","a","b","c","d","e","f">>

\* "%04x" of one limb
HexLimb(l) ==
    <<HexDigit[(l \div 4096) + 1], HexDigit[((l \div 256) % 16) + 1],
      HexDigit[((l \div 16) % 16) + 1], HexDigit[(l % 16) + 1]>>

\* sprintf(hexBuffer, "%016llx", hash)
ToHex(h) == HexLimb(h[4]) \o HexLimb(h[3]) \o HexLimb(h[2]) \o HexLimb(h[1])

hashMAC(macAddr, salt) ==
    ToHex(Fold(Fold(FNV_OFFSET_BASIS, macAddr, 1), saltBytes(salt), 1))

\* the access points in range (6-byte BSSIDs) and the value random() draws
MACs == {<<170, 187, 204, 0, 17, 34>>, <<222, 173, 190, 239, 0, 1>>}
Salts == {305441741}


\* the coordinates setup() falls back to (main.cpp:283-284)
FallbackLat == "33.61095"
FallbackLong == "73.061333"

\* what the modem answers to AT+CGPSINFO within the attempts made: no fix, or
\* a position, given as the decimal strings String(latDec, 6) yields
NoFix == [fix |-> FALSE, lat |-> "", long |-> ""]
Fixes ==
    { [fix |-> TRUE, lat |-> "31.520370", long |-> "74.358749"],
      [fix |-> TRUE, lat |-> "24.860735", long |-> "67.001137"] }
GpsReplies == {NoFix} \cup Fixes

\* Database.get<int>() outcomes: lastError().code() and the value returned
RemoteGets ==
    { [err |-> FALSE, val |-> 0], [err |-> FALSE, val |-> RemoteVal],
      [err |-> TRUE, val |-> 0] }
NoGet == [err |-> TRUE, val |-> -1]

\* -------------------------------------------------------------------- state
VARIABLES
    pc,                      \* "boot", "loop", "scan", "report", "reset"
    wifiNetworksThisCycle, repeatedWifiNetworks, uniqueWifiNetworks,
    impressionCount,
    totalWifiNetworks, totalScansPerformed, totalReportsGenerated,
    currentCycleHashes, previousCycleHashes,
    scanCounter, reportCounter, ephemeralSalt, scanErrors,
    currentDateTime, currentDate, dailyImpressions,
    appInitialized,          \* initializeApp() was called on the FirebaseApp
    networksFound, i, uniqueInThisScan, repeatedInThisScan,  \* performWiFiScan locals
    calls,                   \* Database.set calls issued by the running report
    gpsLatitude, gpsLongitude, gpsFixAcquired,
    statusShown,             \* the "GPS Status" line of the running report
    pending,                 \* uids of the requests the async client still holds
    sdCardAvailable,
    sdLog,                   \* lines the latest step appended to the log file
    h_lastHash,              \* fingerprint classified by the latest step
    h_seenThis, h_seenPrev, h_seenPrev2,  \* fingerprints processed per cycle
    h_incThis, h_incPrev,    \* per fingerprint: increments of totalWifiNetworks
    h_incOlder,              \* in this cycle, the previous one, and before
    h_processed, h_detected, \* this cycle: observations classified, raw detections
    h_detectedTotal,         \* raw detections since setup
    h_totalAtCycleStart,     \* totalWifiNetworks when the cycle began
    h_expiries,              \* scan-timer expiries since setup
    h_generation,            \* generation rollovers since setup
    h_startGet,              \* what the remote store answered in setup
    h_dateChanged,           \* currentDate was assigned after setup
    h_clock, h_get,          \* what the running report read: clock reply, remote get
    h_gps,                   \* and what its GPS refresh returned
    h_ack,                   \* the result asyncCB handled last
    h_scanError,             \* the latest step was a poll the driver failed
    h_discarded,             \* what the restart that led to this boot threw away
    h_fingerprintOf,         \* per BSSID: its latest fingerprint since setup
    h_overCap                \* a scan of this cycle found more than the cap

codeVars ==
    <<wifiNetworksThisCycle, repeatedWifiNetworks, uniqueWifiNetworks,
      impressionCount, totalWifiNetworks, totalScansPerformed,
      totalReportsGenerated, currentCycleHashes, previousCycleHashes,
      scanCounter, reportCounter, ephemeralSalt, scanErrors,
      currentDateTime, currentDate, dailyImpressions,
      appInitialized,
      networksFound, i, uniqueInThisScan, repeatedInThisScan, calls,
      gpsLatitude, gpsLongitude, gpsFixAcquired, statusShown, pending,
      sdCardAvailable, sdLog>>

gpsVars == <<gpsLatitude, gpsLongitude, gpsFixAcquired>>

histVars ==
    <<h_lastHash, h_seenThis, h_seenPrev, h_seenPrev2, h_incThis, h_incPrev,
      h_incOlder, h_processed, h_detected, h_detectedTotal,
      h_totalAtCycleStart, h_expiries, h_generation, h_startGet,
      h_dateChanged, h_clock, h_get, h_gps, h_ack, h_scanError, h_discarded,
      h_fingerprintOf, h_overCap>>

vars == <<pc, codeVars, histVars>>

\* mutant: the salt is left out of the hash
Fingerprint_Unsalted == [m \in MACs, s \in Salts |-> hashMAC(m, 0)]

\* hashMAC over the inputs of the model, computed once
Fingerprint == [m \in MACs, s \in Salts |-> hashMAC(m, s)]

AllHashes == {Fingerprint[m, s] : m \in MACs, s \in Salts}
NoInc == [h \in AllHashes |-> 0]
NoClock == <<"-">>
NoGps == [fix |-> FALSE, lat |-> "-", long |-> "-"]
NoStatus == "-"
NoAck == [uid |-> "-", kind |-> "-"]
NoLoss == [impressions |-> 0, fingerprints |-> 0]
NoFingerprints == [m \in MACs |-> Str_Empty]

\* the globals as initialised at main.cpp:62-109, before setup() runs
Init ==
    /\ pc = "boot"
    /\ wifiNetworksThisCycle = 0 /\ repeatedWifiNetworks = 0
    /\ uniqueWifiNetworks = 0 /\ impressionCount = 0
    /\ totalWifiNetworks = 0 /\ totalScansPerformed = 0
    /\ totalReportsGenerated = 0
    /\ currentCycleHashes = {} /\ previousCycleHashes = {}
    /\ scanCounter = 0 /\ reportCounter = 0 /\ ephemeralSalt = 0
    /\ scanErrors = 0
    /\ currentDateTime = Str_Empty /\ currentDate = Str_Empty
    /\ dailyImpressions = 0
    /\ appInitialized = FALSE
    /\ networksFound = 0 /\ i = 0
    /\ uniqueInThisScan = 0 /\ repeatedInThisScan = 0
    /\ calls = << >>
    /\ gpsLatitude = "0.0" /\ gpsLongitude = "0.0" /\ gpsFixAcquired = FALSE
    /\ statusShown = NoStatus
    /\ pending = {}
    /\ sdCardAvailable = FALSE /\ sdLog = << >>
    /\ h_lastHash = Str_Empty
    /\ h_seenThis = {} /\ h_seenPrev = {} /\ h_seenPrev2 = {}
    /\ h_incThis = NoInc /\ h_incPrev = NoInc /\ h_incOlder = NoInc
    /\ h_processed = 0 /\ h_detected = 0 /\ h_detectedTotal = 0
    /\ h_totalAtCycleStart = 0 /\ h_expiries = 0 /\ h_generation = 0
    /\ h_startGet = NoGet /\ h_dateChanged = FALSE
    /\ h_clock = NoClock /\ h_get = NoGet /\ h_gps = NoGps
    /\ h_ack = NoAck /\ h_scanError = FALSE
    /\ h_discarded = NoLoss
    /\ h_fingerprintOf = NoFingerprints
    /\ h_overCap = FALSE

\* mutant: the error code is tested the wrong way round
Loaded_WrongErrorTest(r) == r.err # FALSE /\ r.val > 0

\* mutant: an app that was never initialised can be ready
AppReady_Always(initialized) == BOOLEAN

\* app.ready() (main.cpp:324, main.cpp:537): the answer is the library's; an
\* app that was never initialised is never ready, an initialised one may
\* complete or lose its authentication in any app.loop() between two reads
AppReady(initialized) == IF initialized THEN BOOLEAN ELSE {FALSE}

\* main.cpp:334 and main.cpp:555: the value a remote get resumes the tally to
Loaded(r) == r.err = FALSE /\ r.val > 0

\* updateGPSLocation() main.cpp:725-779: whether a position was read, and the
\* coordinates the globals hold afterwards
updateGPSLocation(reply, lat, long) ==
    IF reply.fix THEN reply ELSE [fix |-> FALSE, lat |-> lat, long |-> long]

\* setup() main.cpp:277-286 with waitForGPSFix() main.cpp:660-723: the fix,
\* or the fallback coordinates
waitForGPSFix(reply) ==
    IF reply.fix THEN reply
    ELSE [fix |-> FALSE, lat |-> FallbackLat, long |-> FallbackLong]

\* reportAnalytics() main.cpp:526
GpsStatus(acquired, refreshed) == IF acquired THEN "LOCKED" ELSE "SEARCHING"

\* mutant: the line is written whether or not a card was mounted
logToSD_Always(available, message) == <<message>>

\* logToSD() main.cpp:938-954: the line appended to the log file; without a
\* card the call returns at once
logToSD(available, message) == IF available THEN <<message>> ELSE << >>

\* setup(): salt, modem bring-up (any failure returns early), network time,
\* Firebase initialisation and the resume of today's tally
Setup ==
    /\ pc = "boot"
    /\ pc' = "loop"
    /\ \E salt \in Salts, card \in BOOLEAN, modemOk \in BOOLEAN,
          timeStr \in ClockReplies,
          gps \in GpsReplies, authOk \in AppReady(TRUE), r \in RemoteGets :
          /\ ephemeralSalt' = salt
          /\ sdCardAvailable' = card
          /\ sdLog' = logToSD(card, "=== SYSTEM STARTUP ===")
                       \o (IF modemOk
                           THEN logToSD(card, "Modem: Initialized successfully")
                           ELSE logToSD(card, "Modem: ERROR - Initialization failed"))
          /\ IF ~modemOk
             THEN UNCHANGED <<currentDateTime, currentDate, appInitialized,
                              dailyImpressions, h_startGet, gpsVars,
                              pending>>
             ELSE /\ currentDateTime' = getTimeFromSIM7600(timeStr)
                  /\ currentDate' = extractDateFromDateTime(currentDateTime')
                  /\ gpsLatitude' = waitForGPSFix(gps).lat
                  /\ gpsLongitude' = waitForGPSFix(gps).long
                  /\ gpsFixAcquired' = waitForGPSFix(gps).fix
                  /\ appInitialized' = TRUE
                  /\ IF authOk
                     THEN /\ dailyImpressions' =
                               IF Loaded(r) THEN r.val ELSE dailyImpressions
                          /\ h_startGet' = r
                          /\ pending' = {"deviceInfoTask"}
                     ELSE UNCHANGED <<dailyImpressions, h_startGet, pending>>
    /\ UNCHANGED <<wifiNetworksThisCycle, repeatedWifiNetworks,
                   uniqueWifiNetworks, impressionCount, totalWifiNetworks,
                   totalScansPerformed, totalReportsGenerated,
                   currentCycleHashes, previousCycleHashes, scanCounter,
                   reportCounter, scanErrors, networksFound, i,
                   uniqueInThisScan, repeatedInThisScan, calls, statusShown>>
    /\ UNCHANGED <<h_lastHash, h_seenThis, h_seenPrev, h_seenPrev2, h_incThis,
                   h_incPrev, h_incOlder, h_processed, h_detected, h_detectedTotal,
                   h_totalAtCycleStart, h_expiries, h_generation,
                   h_dateChanged, h_clock, h_get, h_gps, h_ack>>
    /\ h_scanError' = FALSE
    /\ h_discarded' = NoLoss
    /\ h_fingerprintOf' = NoFingerprints
    /\ h_overCap' = FALSE

\* mutant: the report waits for one scan too many
AfterScan_OffByOne(counter) ==
    IF counter > SCANS_PER_UPLOAD THEN "report" ELSE "loop"

\* loop() main.cpp:395: where the iteration goes once the scan is counted
AfterScan(counter) == IF counter >= SCANS_PER_UPLOAD THEN "report" ELSE "loop"

\* mutant: an empty result is taken for a failure
ScanFailed_OrEmpty(found) == found <= 0

\* performWiFiScan() main.cpp:417
ScanFailed(found) == found < 0

\* loop() main.cpp:389-392 with performWiFiScan() main.cpp:413-439: the scan
\* timer expires; an error or empty result returns at once, a non-empty one
\* enters the classification loop
ScanStart ==
    /\ pc = "loop"
    /\ totalScansPerformed < MaxScans
    /\ h_expiries' = h_expiries + 1
    /\ totalScansPerformed' = totalScansPerformed + 1
    /\ \E found \in ScanResults :
          /\ h_scanError' = (found < 0)
          /\ h_overCap' = (h_overCap \/ found > MAX_NETWORKS_PER_SCAN)
          /\ sdLog' = IF found < 0 THEN logToSD(sdCardAvailable, "WiFi Scan Error")
                       ELSE IF found = 0
                       THEN logToSD(sdCardAvailable, "WiFi Scan: No networks found")
                       ELSE << >>
          /\ IF found <= 0
             THEN /\ scanErrors' =
                       IF ScanFailed(found) THEN scanErrors + 1 ELSE scanErrors
                  /\ scanCounter' = scanCounter + 1
                  /\ pc' = AfterScan(scanCounter')
                  /\ UNCHANGED <<impressionCount, networksFound, h_detected,
                                 h_detectedTotal>>
             ELSE /\ impressionCount' = impressionCount + found
                  /\ networksFound' = found
                  /\ h_detected' = h_detected + found
                  /\ h_detectedTotal' = h_detectedTotal + found
                  /\ pc' = "scan"
                  /\ UNCHANGED <<scanErrors, scanCounter>>
    /\ UNCHANGED <<wifiNetworksThisCycle, repeatedWifiNetworks,
                   uniqueWifiNetworks, totalWifiNetworks,
                   totalReportsGenerated, currentCycleHashes,
                   previousCycleHashes, reportCounter, ephemeralSalt,
                   currentDateTime, currentDate, dailyImpressions,
                   appInitialized, i, uniqueInThisScan,
                   repeatedInThisScan, calls, gpsVars, statusShown, pending,
                   sdCardAvailable>>
    /\ UNCHANGED <<h_lastHash, h_seenThis, h_seenPrev, h_seenPrev2, h_incThis,
                   h_incPrev, h_incOlder, h_processed, h_totalAtCycleStart, h_generation,
                   h_startGet, h_dateChanged, h_clock, h_get, h_gps, h_ack>>
    /\ UNCHANGED h_discarded
    /\ UNCHANGED h_fingerprintOf

\* mutant: every detection is classified
processCount_NoCap(found) == found

\* main.cpp:438
processCount(found) ==
    IF found > MAX_NETWORKS_PER_SCAN THEN MAX_NETWORKS_PER_SCAN ELSE found

\* mutants: a membership test that never finds, resp. never misses
IsRepeated_Never(hashedBSSID, current) == FALSE
IsNewToSystem_Always(hashedBSSID, previous) == TRUE

\* main.cpp:448 and main.cpp:454: the two membership tests of the loop body
IsRepeated(hashedBSSID, current) == hashedBSSID \in current
IsNewToSystem(hashedBSSID, previous) == hashedBSSID \notin previous

\* performWiFiScan() main.cpp:441-461: one iteration of the loop, on the
\* BSSID the driver reports at index i
Classify ==
    /\ pc = "scan"
    /\ i < processCount(networksFound)
    /\ \E bssid \in MACs :
          LET hashedBSSID == Fingerprint[bssid, ephemeralSalt] IN
          /\ h_lastHash' = hashedBSSID
          /\ h_fingerprintOf' = [h_fingerprintOf EXCEPT ![bssid] = hashedBSSID]
          /\ h_seenThis' = h_seenThis \cup {hashedBSSID}
          /\ IF IsRepeated(hashedBSSID, currentCycleHashes)
             THEN /\ repeatedInThisScan' = repeatedInThisScan + 1
                  /\ UNCHANGED <<uniqueInThisScan, currentCycleHashes,
                                 totalWifiNetworks, h_incThis>>
             ELSE /\ uniqueInThisScan' = uniqueInThisScan + 1
                  /\ currentCycleHashes' = currentCycleHashes \cup {hashedBSSID}
                  /\ IF IsNewToSystem(hashedBSSID, previousCycleHashes)
                     THEN /\ totalWifiNetworks' = totalWifiNetworks + 1
                          /\ h_incThis' = [h_incThis EXCEPT ![hashedBSSID] = @ + 1]
                     ELSE UNCHANGED <<totalWifiNetworks, h_incThis>>
                  /\ UNCHANGED repeatedInThisScan
    /\ i' = i + 1
    /\ h_processed' = h_processed + 1
    /\ UNCHANGED <<pc, wifiNetworksThisCycle, repeatedWifiNetworks,
                   uniqueWifiNetworks, impressionCount, totalScansPerformed,
                   totalReportsGenerated, previousCycleHashes, scanCounter,
                   reportCounter, ephemeralSalt, scanErrors, currentDateTime,
                   currentDate, dailyImpressions, appInitialized,
                   networksFound, calls, gpsVars, statusShown, pending,
                   sdCardAvailable>>
    /\ sdLog' = << >>
    /\ UNCHANGED <<h_seenPrev, h_seenPrev2, h_incPrev, h_incOlder, h_detected,
                   h_detectedTotal, h_totalAtCycleStart, h_expiries,
                   h_generation, h_startGet, h_dateChanged, h_clock, h_get,
                   h_gps, h_ack>>
    /\ h_scanError' = FALSE
    /\ UNCHANGED h_discarded
    /\ UNCHANGED h_overCap

\* performWiFiScan() main.cpp:463-468 and loop() main.cpp:391-395: the loop
\* is over, the scan's counts are folded in and the scan is counted
ScanEnd ==
    /\ pc = "scan"
    /\ i >= processCount(networksFound)
    /\ wifiNetworksThisCycle' = wifiNetworksThisCycle + networksFound
    /\ uniqueWifiNetworks' = uniqueWifiNetworks + uniqueInThisScan
    /\ repeatedWifiNetworks' = repeatedWifiNetworks + repeatedInThisScan
    /\ scanCounter' = scanCounter + 1
    /\ pc' = AfterScan(scanCounter')
    /\ networksFound' = 0 /\ i' = 0
    /\ uniqueInThisScan' = 0 /\ repeatedInThisScan' = 0
    /\ h_lastHash' = Str_Empty
    /\ sdLog' = logToSD(sdCardAvailable, "SCAN")
    /\ UNCHANGED sdCardAvailable
    /\ UNCHANGED <<impressionCount, totalWifiNetworks, totalScansPerformed,
                   totalReportsGenerated, currentCycleHashes,
                   previousCycleHashes, reportCounter, ephemeralSalt,
                   scanErrors, currentDateTime, currentDate, dailyImpressions,
                   appInitialized, calls, gpsVars, statusShown, pending>>
    /\ UNCHANGED <<h_seenThis, h_seenPrev, h_seenPrev2, h_incThis, h_incPrev, h_incOlder,
                   h_processed, h_detected, h_detectedTotal,
                   h_totalAtCycleStart, h_expiries, h_generation, h_startGet,
                   h_dateChanged, h_clock, h_get, h_gps, h_ack>>
    /\ h_scanError' = FALSE
    /\ UNCHANGED h_discarded
    /\ UNCHANGED h_fingerprintOf
    /\ UNCHANGED h_overCap


Range(seq) == {seq[k] : k \in 1 .. Len(seq)}

\* buildDailyDataJSON() main.cpp:621-632, as the fields it serialises
buildDailyDataJSON(date, impressions, dateTime) ==
    [date |-> date, daily_impressions |-> impressions, last_updated |-> dateTime]

\* mutant: the "Time unavailable" sentinel is not tested
ValidTime_NoSentinel(dateTime, newDate) == newDate # Str_Unknown

\* reportAnalytics() main.cpp:543: the time read is usable
ValidTime(dateTime, newDate) ==
    newDate # Str_Unknown /\ dateTime # Str_TimeUnavailable

\* mutant: a day change is never detected
DayChanged_Never(newDate, stored) == FALSE

\* mutant: every valid date is taken for a new day
DayChanged_Always(newDate, stored) == Len(stored) > 0

\* reportAnalytics() main.cpp:545: a day change is detected
DayChanged(newDate, stored) == newDate # stored /\ Len(stored) > 0

\* mutant: no stored date is fit for a path
Uploadable_Never(stored) == FALSE

\* reportAnalytics() main.cpp:567: the stored date can name a path
Uploadable(stored) == Len(stored) > 0 /\ stored # Str_Unknown

\* mutant: a new day without remote data keeps the running total
NewDayTally_CarryOver(r, summed) == IF Loaded(r) THEN r.val ELSE summed

\* reportAnalytics() main.cpp:555-561: the tally a new day starts with
NewDayTally(r, summed) == IF Loaded(r) THEN r.val ELSE 0

\* mutant: = instead of +=
Accumulate_Overwrite(daily, impressions) == impressions

\* reportAnalytics() main.cpp:497: the tally with the cycle's impressions added
Accumulate(daily, impressions) == daily + impressions

\* reportAnalytics() main.cpp:494-605: count the report, add the cycle's
\* impressions to the daily tally, then (app ready) read the time, settle the
\* day boundary and issue the two Database.set calls
reportAnalytics ==
    /\ pc = "report"
    /\ pc' = "reset"
    /\ reportCounter' = reportCounter + 1
    /\ totalReportsGenerated' = totalReportsGenerated + 1
    /\ \E gps \in GpsReplies :
          LET got == updateGPSLocation(gps, gpsLatitude, gpsLongitude) IN
          /\ gpsLatitude' = got.lat
          /\ gpsLongitude' = got.long
          /\ gpsFixAcquired' = (got.fix \/ gpsFixAcquired)
          /\ statusShown' = GpsStatus(gpsFixAcquired', got.fix)
          /\ h_gps' = gps
    /\ \E ready \in AppReady(appInitialized), timeStr \in ClockReplies,
          r \in RemoteGets :
          LET summed == Accumulate(dailyImpressions, impressionCount)
              dateTime == getTimeFromSIM7600(timeStr)
              newDate == extractDateFromDateTime(dateTime)
          IN  IF ~ready
              THEN /\ dailyImpressions' = summed
                   /\ calls' = << >>
                   /\ h_clock' = NoClock /\ h_get' = NoGet
                   /\ UNCHANGED <<currentDateTime, currentDate, h_dateChanged>>
              ELSE /\ currentDateTime' = dateTime
                   /\ h_clock' = timeStr
                   /\ IF ~ValidTime(dateTime, newDate)
                      THEN /\ dailyImpressions' = summed
                           /\ calls' = << >>
                           /\ h_get' = NoGet
                           /\ UNCHANGED <<currentDate, h_dateChanged>>
                      ELSE /\ IF DayChanged(newDate, currentDate)
                              THEN /\ currentDate' = newDate
                                   /\ dailyImpressions' = NewDayTally(r, summed)
                                   /\ h_get' = r
                                   /\ h_dateChanged' = TRUE
                              ELSE IF Len(currentDate) = 0
                              THEN /\ currentDate' = newDate
                                   /\ dailyImpressions' = summed
                                   /\ h_get' = NoGet
                                   /\ h_dateChanged' = TRUE
                              ELSE /\ dailyImpressions' = summed
                                   /\ h_get' = NoGet
                                   /\ UNCHANGED <<currentDate, h_dateChanged>>
                           /\ calls' =
                                IF Uploadable(currentDate')
                                THEN << [task |-> "dailyDataTask",
                                         path |-> currentDate',
                                         json |-> buildDailyDataJSON(
                                                    currentDate',
                                                    dailyImpressions',
                                                    currentDateTime')],
                                        [task |-> "locationUpdateTask",
                                         json |-> [Lat |-> gpsLatitude',
                                                   Long |-> gpsLongitude']] >>
                                ELSE << >>
    /\ UNCHANGED <<wifiNetworksThisCycle, repeatedWifiNetworks,
                   uniqueWifiNetworks, impressionCount, totalWifiNetworks,
                   totalScansPerformed, currentCycleHashes,
                   previousCycleHashes, scanCounter, ephemeralSalt,
                   scanErrors, appInitialized, networksFound, i,
                   uniqueInThisScan, repeatedInThisScan>>
    /\ pending' = pending \cup {c.task : c \in Range(calls')}
    /\ sdLog' = (IF h_gps'.fix THEN logToSD(sdCardAvailable, "GPS Updated")
                 ELSE logToSD(sdCardAvailable, "GPS update failed after 3 attempts"))
                \o (IF sdCardAvailable
                    THEN logToSD(sdCardAvailable, "--- ANALYTICS REPORT ---")
                    ELSE << >>)
    /\ UNCHANGED sdCardAvailable
    /\ UNCHANGED <<h_lastHash, h_seenThis, h_seenPrev, h_seenPrev2, h_incThis,
                   h_incPrev, h_incOlder, h_processed, h_detected, h_detectedTotal,
                   h_totalAtCycleStart, h_expiries, h_generation, h_startGet,
                   h_ack>>
    /\ h_scanError' = FALSE
    /\ UNCHANGED h_discarded
    /\ UNCHANGED h_fingerprintOf
    /\ UNCHANGED h_overCap

\* mutants: the rollover forgets the old generation, keeps every generation,
\* or swaps the sets without clearing
advanceGeneration_Drop(current, previous) == <<{}, {}>>
advanceGeneration_Keep(current, previous) == <<{}, current \cup previous>>
advanceGeneration_Swap(current, previous) == <<previous, current>>

\* loop() main.cpp:398-400: what the rollover makes of the two sets
advanceGeneration(current, previous) == <<{}, current>>

\* the counters of the program, by name
Counters ==
    [wifiNetworksThisCycle |-> wifiNetworksThisCycle,
     repeatedWifiNetworks |-> repeatedWifiNetworks,
     uniqueWifiNetworks |-> uniqueWifiNetworks,
     impressionCount |-> impressionCount,
     scanCounter |-> scanCounter,
     totalWifiNetworks |-> totalWifiNetworks,
     totalScansPerformed |-> totalScansPerformed,
     totalReportsGenerated |-> totalReportsGenerated,
     dailyImpressions |-> dailyImpressions]

\* mutants: the reset leaves the scan counter, leaves the impression count,
\* or also clears the cumulative counters
resetCycle_KeepScanCounter(c) ==
    [c EXCEPT !.wifiNetworksThisCycle = 0, !.repeatedWifiNetworks = 0,
              !.uniqueWifiNetworks = 0, !.impressionCount = 0]
resetCycle_KeepImpressions(c) ==
    [c EXCEPT !.wifiNetworksThisCycle = 0, !.repeatedWifiNetworks = 0,
              !.uniqueWifiNetworks = 0, !.scanCounter = 0]
resetCycle_ClearTotals(c) ==
    [c EXCEPT !.wifiNetworksThisCycle = 0, !.repeatedWifiNetworks = 0,
              !.uniqueWifiNetworks = 0, !.impressionCount = 0,
              !.scanCounter = 0, !.totalWifiNetworks = 0]

\* loop() main.cpp:401-405: what the reset makes of the counters
resetCycle(c) ==
    [c EXCEPT !.wifiNetworksThisCycle = 0, !.repeatedWifiNetworks = 0,
              !.uniqueWifiNetworks = 0, !.impressionCount = 0,
              !.scanCounter = 0]

\* loop() main.cpp:398-405: generation rollover and reset of the cycle
ResetCycle ==
    /\ pc = "reset"
    /\ pc' = "loop"
    /\ currentCycleHashes' =
         advanceGeneration(currentCycleHashes, previousCycleHashes)[1]
    /\ previousCycleHashes' =
         advanceGeneration(currentCycleHashes, previousCycleHashes)[2]
    /\ LET c == resetCycle(Counters) IN
          /\ wifiNetworksThisCycle' = c.wifiNetworksThisCycle
          /\ repeatedWifiNetworks' = c.repeatedWifiNetworks
          /\ uniqueWifiNetworks' = c.uniqueWifiNetworks
          /\ impressionCount' = c.impressionCount
          /\ scanCounter' = c.scanCounter
          /\ totalWifiNetworks' = c.totalWifiNetworks
          /\ totalScansPerformed' = c.totalScansPerformed
          /\ totalReportsGenerated' = c.totalReportsGenerated
          /\ dailyImpressions' = c.dailyImpressions
    /\ calls' = << >>
    /\ h_seenPrev2' = h_seenPrev /\ h_seenPrev' = h_seenThis /\ h_seenThis' = {}
    /\ h_incPrev' = h_incThis /\ h_incThis' = NoInc
    /\ h_incOlder' = [h \in AllHashes |-> h_incOlder[h] + h_incPrev[h]]
    /\ h_processed' = 0 /\ h_detected' = 0
    /\ h_totalAtCycleStart' = totalWifiNetworks
    /\ h_generation' = h_generation + 1
    /\ h_clock' = NoClock /\ h_get' = NoGet /\ h_gps' = NoGps
    /\ statusShown' = NoStatus
    /\ sdLog' = << >>
    /\ UNCHANGED sdCardAvailable
    /\ UNCHANGED <<reportCounter, ephemeralSalt,
                   scanErrors, currentDateTime, currentDate,
                   appInitialized, networksFound, i,
                   uniqueInThisScan, repeatedInThisScan, gpsVars, pending>>
    /\ UNCHANGED <<h_lastHash, h_detectedTotal, h_expiries, h_startGet,
                   h_dateChanged, h_ack>>
    /\ h_scanError' = FALSE
    /\ UNCHANGED h_discarded
    /\ UNCHANGED h_fingerprintOf
    /\ h_overCap' = FALSE

\* mutant: the counters of the unfinished cycle survive the reboot
Rebooted_KeepCycle(c) ==
    [c EXCEPT !.totalWifiNetworks = 0, !.totalScansPerformed = 0,
              !.totalReportsGenerated = 0, !.dailyImpressions = 0]

\* main.cpp:64-97: the counters after ESP.restart(), at their initialisers
Rebooted(c) == [k \in DOMAIN c |-> 0]

\* loop() main.cpp:380-386: the uptime deadline is reached, ESP.restart()
\* reboots and every global is back at its initialiser
Restart ==
    /\ pc = "loop"
    /\ pc' = "boot"
    /\ LET c == Rebooted(Counters) IN
          /\ wifiNetworksThisCycle' = c.wifiNetworksThisCycle
          /\ repeatedWifiNetworks' = c.repeatedWifiNetworks
          /\ uniqueWifiNetworks' = c.uniqueWifiNetworks
          /\ impressionCount' = c.impressionCount
          /\ scanCounter' = c.scanCounter
          /\ totalWifiNetworks' = c.totalWifiNetworks
          /\ totalScansPerformed' = c.totalScansPerformed
          /\ totalReportsGenerated' = c.totalReportsGenerated
          /\ dailyImpressions' = c.dailyImpressions
    /\ currentCycleHashes' = {} /\ previousCycleHashes' = {}
    /\ reportCounter' = 0 /\ ephemeralSalt' = 0
    /\ scanErrors' = 0
    /\ currentDateTime' = Str_Empty /\ currentDate' = Str_Empty
    /\ appInitialized' = FALSE
    /\ networksFound' = 0 /\ i' = 0
    /\ uniqueInThisScan' = 0 /\ repeatedInThisScan' = 0
    /\ calls' = << >>
    /\ gpsLatitude' = "0.0" /\ gpsLongitude' = "0.0" /\ gpsFixAcquired' = FALSE
    /\ statusShown' = NoStatus
    /\ pending' = {}
    /\ sdCardAvailable' = FALSE /\ sdLog' = << >>
    /\ h_lastHash' = Str_Empty
    /\ h_seenThis' = {} /\ h_seenPrev' = {} /\ h_seenPrev2' = {}
    /\ h_incThis' = NoInc /\ h_incPrev' = NoInc /\ h_incOlder' = NoInc
    /\ h_processed' = 0 /\ h_detected' = 0 /\ h_detectedTotal' = 0
    /\ h_totalAtCycleStart' = 0 /\ h_expiries' = 0 /\ h_generation' = 0
    /\ h_startGet' = NoGet /\ h_dateChanged' = FALSE
    /\ h_clock' = NoClock /\ h_get' = NoGet /\ h_gps' = NoGps
    /\ h_ack' = NoAck /\ h_scanError' = FALSE
    /\ h_discarded' =
         [impressions |-> impressionCount,
          fingerprints |-> Cardinality(currentCycleHashes \cup previousCycleHashes)]
    /\ h_fingerprintOf' = NoFingerprints
    /\ h_overCap' = FALSE

\* what app.loop() can hand to asyncCB: the outcome of a request the client
\* holds, or an event or debug message of the authentication
AsyncResults(held, initialized) ==
    [uid : held, kind : {"error", "available"}]
    \cup (IF initialized THEN [uid : {"authTask"}, kind : {"event", "debug"}]
          ELSE {})

\* mutant: an error result takes the cycle's impressions out of the tally
asyncCB_Counters_Rollback(aResult, c) ==
    IF aResult.kind = "error"
    THEN [c EXCEPT !.dailyImpressions = 0, !.impressionCount = 0]
    ELSE c

\* asyncCB() main.cpp:852-896: the counters after the callback handled a
\* result; every branch prints or logs and assigns no global
asyncCB_Counters(aResult, c) == c

\* asyncCB() main.cpp:852-896, called from app.loop() at the top of loop()
\* (main.cpp:376) and in the wait of reportAnalytics() (main.cpp:591-594):
\* it prints and logs the result and writes no global
asyncCB ==
    /\ pc \in {"loop", "reset"}
    /\ \E aResult \in AsyncResults(pending, appInitialized) :
          /\ aResult # h_ack
          /\ h_ack' = aResult
          /\ pending' = pending \ {aResult.uid}
          /\ sdLog' = IF aResult.kind = "error"
                       THEN logToSD(sdCardAvailable, "Firebase Upload ERROR")
                       ELSE IF aResult.kind = "available"
                       THEN logToSD(sdCardAvailable, "Firebase Upload: successful")
                       ELSE << >>
          /\ LET c == asyncCB_Counters(aResult, Counters) IN
                /\ wifiNetworksThisCycle' = c.wifiNetworksThisCycle
                /\ repeatedWifiNetworks' = c.repeatedWifiNetworks
                /\ uniqueWifiNetworks' = c.uniqueWifiNetworks
                /\ impressionCount' = c.impressionCount
                /\ scanCounter' = c.scanCounter
                /\ totalWifiNetworks' = c.totalWifiNetworks
                /\ totalScansPerformed' = c.totalScansPerformed
                /\ totalReportsGenerated' = c.totalReportsGenerated
                /\ dailyImpressions' = c.dailyImpressions
    /\ UNCHANGED <<pc, currentCycleHashes, previousCycleHashes,
                   reportCounter, ephemeralSalt, scanErrors, currentDateTime,
                   currentDate, appInitialized,
                   networksFound, i, uniqueInThisScan, repeatedInThisScan,
                   calls, gpsVars, statusShown, sdCardAvailable>>
    /\ UNCHANGED <<h_lastHash, h_seenThis, h_seenPrev, h_seenPrev2, h_incThis,
                   h_incPrev, h_incOlder, h_processed, h_detected,
                   h_detectedTotal, h_totalAtCycleStart, h_expiries,
                   h_generation, h_startGet, h_dateChanged, h_clock, h_get,
                   h_gps>>
    /\ h_scanError' = FALSE
    /\ UNCHANGED h_discarded
    /\ UNCHANGED h_fingerprintOf
    /\ UNCHANGED h_overCap

\* a site without GPS reception: no position is ever read
NoReception == ~gpsFixAcquired

\* a device without SD card: initSDCard() fails at startup
NoCard == ~sdCardAvailable

\* The counting, deduplication and day-boundary behaviour, at a site without
\* GPS reception and on a link that returns no result of a request: the
\* position and the results are written by no statement that the counters,
\* the sets or the tally depend on (SpecGps, SpecPublish and SpecCallback
\* cover them).
Next ==
    \/ Setup /\ NoReception' /\ NoCard'
    \/ ScanStart
    \/ Classify
    \/ ScanEnd
    \/ reportAnalytics /\ NoReception'
    \/ ResetCycle
    \/ Restart

Spec == Init /\ [][Next]_vars

\* the short runs of SpecGps and SpecPublish: the scans of one lifetime, and
\* the detections of a scan
ReportScans == 4
ReportFound == 1
ShortRun == totalScansPerformed <= ReportScans /\ networksFound <= ReportFound

\* The position: every GPS reply at startup and in each report, on short runs
\* (no result of a request is delivered).
NextGps ==
    \/ Setup /\ NoCard'
    \/ ScanStart /\ ShortRun'
    \/ Classify
    \/ ScanEnd
    \/ reportAnalytics
    \/ ResetCycle
    \/ Restart

SpecGps == Init /\ [][NextGps]_vars

\* of the results, the link returns those of the daily-data requests
DailyResult == h_ack.uid = "dailyDataTask"

\* Publishing: the result of each daily-data request is delivered as success,
\* as error, or lost, at any app.loop(), on short runs at a site without GPS
\* reception.
NextPublish ==
    \/ Setup /\ NoReception' /\ NoCard'
    \/ ScanStart /\ ShortRun'
    \/ Classify
    \/ ScanEnd
    \/ reportAnalytics /\ NoReception'
    \/ ResetCycle
    \/ Restart
    \/ asyncCB /\ DailyResult'

SpecPublish == Init /\ [][NextPublish]_vars

\* loop() runs reportAnalytics() and the reset in sequence; every wait in them
\* is bounded (main.cpp:591, 729, 785), so neither step is postponed for ever
FairSpecPublish ==
    SpecPublish /\ WF_vars(reportAnalytics /\ NoReception') /\ WF_vars(ResetCycle)

\* Callbacks: every result app.loop() can hand to asyncCB (authentication
\* events, the outcome of each set request), at any app.loop() and in any
\* order, at a site without GPS reception, on runs of one report and the
\* scan after it.
CallbackScans == 3
BriefRun == totalScansPerformed <= CallbackScans /\ networksFound <= ReportFound

NextCallback ==
    \/ Setup /\ NoReception' /\ NoCard'
    \/ ScanStart /\ BriefRun'
    \/ Classify
    \/ ScanEnd
    \/ reportAnalytics /\ NoReception'
    \/ ResetCycle
    \/ Restart
    \/ asyncCB

SpecCallback == Init /\ [][NextCallback]_vars

\* Logging: a device with and a device without SD card, fed the same scans,
\* clock replies and remote answers, with the results of the daily-data
\* requests delivered, on short runs at a site without GPS reception.
NextLog ==
    \/ Setup /\ NoReception'
    \/ ScanStart /\ ShortRun'
    \/ Classify
    \/ ScanEnd
    \/ reportAnalytics /\ NoReception'
    \/ ResetCycle
    \/ Restart
    \/ asyncCB /\ DailyResult'

SpecLog == Init /\ [][NextLog]_vars

\* =================================================================== claims
\* the date "20YY-MM-DD" that each modem clock reply stands for
DateOfReply(timeStr) ==
    IF timeStr = ClockDay1
    THEN <<"2","0","2","5","-","1","2","-","0","2">>
    ELSE <<"2","0","2","5","-","1","2","-","0","3">>

ValidReplies == {ClockDay1, ClockDay2}

\* the value the remote store answered at startup, 0 when it gave none
StartValue ==
    IF h_startGet.err = FALSE /\ h_startGet.val > 0 THEN h_startGet.val ELSE 0

\* a step of the classification loop, and the step that leaves the loop
ClassifyStep == pc = "scan" /\ i' = i + 1
FoldStep == pc = "scan" /\ pc' # "scan"
AtBoundary == pc \in {"loop", "report", "reset"}

\* C1: each processed fingerprint h is classified by the three-way rule:
\* h in current: only the repeated count grows, no set changes; h in neither
\* set: h joins current, the unique count and totalWifiNetworks grow by one;
\* h only in previous: h joins current, the unique count grows by one and
\* totalWifiNetworks stays. The scan's counts are then folded into
\* uniqueWifiNetworks and repeatedWifiNetworks.
C1_Classification ==
    [][ /\ ClassifyStep =>
            LET h == h_lastHash' IN
            /\ previousCycleHashes' = previousCycleHashes
            /\ h \in currentCycleHashes =>
                  /\ repeatedInThisScan' = repeatedInThisScan + 1
                  /\ uniqueInThisScan' = uniqueInThisScan
                  /\ currentCycleHashes' = currentCycleHashes
                  /\ totalWifiNetworks' = totalWifiNetworks
            /\ (h \notin currentCycleHashes /\ h \notin previousCycleHashes) =>
                  /\ currentCycleHashes' = currentCycleHashes \cup {h}
                  /\ uniqueInThisScan' = uniqueInThisScan + 1
                  /\ totalWifiNetworks' = totalWifiNetworks + 1
                  /\ repeatedInThisScan' = repeatedInThisScan
            /\ (h \notin currentCycleHashes /\ h \in previousCycleHashes) =>
                  /\ currentCycleHashes' = currentCycleHashes \cup {h}
                  /\ uniqueInThisScan' = uniqueInThisScan + 1
                  /\ totalWifiNetworks' = totalWifiNetworks
                  /\ repeatedInThisScan' = repeatedInThisScan
        /\ FoldStep =>
            /\ uniqueWifiNetworks' = uniqueWifiNetworks + uniqueInThisScan
            /\ repeatedWifiNetworks' = repeatedWifiNetworks + repeatedInThisScan
            /\ totalWifiNetworks' = totalWifiNetworks
      ]_vars

\* one scan classified a fingerprint known from the previous cycle as unique
\* and then saw it again as repeated, after new-to-system ones were counted
C1_Witness ==
    /\ pc = "scan"
    /\ uniqueInThisScan = 1 /\ repeatedInThisScan = 1
    /\ h_lastHash \in previousCycleHashes
    /\ totalWifiNetworks = 2

\* C2 as stated: a fingerprint seen in two consecutive cycles has raised
\* totalWifiNetworks exactly once over those two cycles.
C2_Original ==
    \A h \in h_seenThis \cap h_seenPrev : h_incPrev[h] + h_incThis[h] = 1

\* C2 (amended): a fingerprint seen in cycle n and again in cycle n+1 never
\* raises totalWifiNetworks in cycle n+1; over the two cycles it raises it
\* once if it was not seen in cycle n-1, and not at all if it was.
C2_TwoGeneration ==
    \A h \in h_seenThis \cap h_seenPrev :
        /\ h_incThis[h] = 0
        /\ h_incPrev[h] + h_incThis[h] = IF h \in h_seenPrev2 THEN 0 ELSE 1

C2_Witness ==
    /\ h_generation = 1
    /\ pc = "loop" /\ scanCounter = 1
    /\ \E h \in h_seenThis \cap h_seenPrev : h_incPrev[h] = 1
    /\ uniqueWifiNetworks >= 1

\* C3: a fingerprint seen in cycle n, not seen in cycle n+1 and seen again in
\* cycle n+2 is new-to-system there: its first observation raises
\* totalWifiNetworks once more, so it has been counted at least twice.
C3_Forgetting ==
    \A h \in (h_seenThis \cap h_seenPrev2) \ h_seenPrev :
        /\ h_incThis[h] = 1
        /\ h_incThis[h] + h_incPrev[h] + h_incOlder[h] >= 2

C3_Witness ==
    /\ h_generation = 2
    /\ \E h \in (h_seenThis \cap h_seenPrev2) \ h_seenPrev : h_incOlder[h] = 1
    /\ h_seenPrev # {}

\* C4: in a cycle that follows a cycle with no processed fingerprint and whose
\* scans all stayed within the cap, uniqueWifiNetworks is the number of
\* distinct fingerprints seen, repeatedWifiNetworks the number of processed
\* observations minus that, and totalWifiNetworks grew by the same number.
C4_Dedup ==
    (AtBoundary /\ h_seenPrev = {} /\ h_processed = h_detected) =>
        /\ uniqueWifiNetworks = Cardinality(h_seenThis)
        /\ repeatedWifiNetworks = h_processed - Cardinality(h_seenThis)
        /\ totalWifiNetworks - h_totalAtCycleStart = Cardinality(h_seenThis)

\* the cycle's input was [A, A, B]: one batch of two and one batch of one
C4_Witness ==
    /\ pc = "report" /\ h_seenPrev = {}
    /\ h_processed = 3 /\ h_detected = 3
    /\ Cardinality(h_seenThis) = 2
    /\ repeatedWifiNetworks = 1

\* C5: the generation sets roll over only in the step that follows
\* reportAnalytics on the K-th scan, once per report; that step makes
\* previous the old current and empties current; no other step of a running
\* process changes previous or removes an element of current.
C5_Rollover ==
    /\ [][ /\ (pc = "reset" /\ pc' = "loop") =>
                /\ scanCounter = SCANS_PER_UPLOAD
                /\ previousCycleHashes' = currentCycleHashes
                /\ currentCycleHashes' = {}
           /\ (pc # "reset" /\ pc' # "boot") =>
                /\ previousCycleHashes' = previousCycleHashes
                /\ currentCycleHashes \subseteq currentCycleHashes'
         ]_vars
    /\ [](pc = "loop" => h_generation = totalReportsGenerated)
    /\ [](pc = "reset" => h_generation + 1 = totalReportsGenerated)

C5_Witness ==
    /\ pc = "loop" /\ h_generation = 2
    /\ previousCycleHashes # {} /\ currentCycleHashes = {}
    /\ previousCycleHashes = h_seenPrev /\ h_seenPrev2 # h_seenPrev

\* C6: reportAnalytics runs on every K-th scan-timer expiry and only then,
\* whatever the polls returned; once the cycle is reset the scan counter is
\* back to 0.
C6_EveryKth ==
    /\ pc \in {"loop", "reset"} =>
          totalReportsGenerated = h_expiries \div SCANS_PER_UPLOAD
    /\ pc = "report" =>
          /\ h_expiries > 0 /\ h_expiries % SCANS_PER_UPLOAD = 0
          /\ totalReportsGenerated = (h_expiries \div SCANS_PER_UPLOAD) - 1
    /\ pc = "scan" =>
          totalReportsGenerated = (h_expiries - 1) \div SCANS_PER_UPLOAD
    /\ pc = "loop" => scanCounter = h_expiries % SCANS_PER_UPLOAD

\* two reports after four polls of which one failed, two found nothing and
\* one found a network
C6_Witness ==
    /\ pc = "loop" /\ totalReportsGenerated = 2 /\ h_expiries = 4
    /\ scanErrors = 1 /\ h_detectedTotal = 1 /\ scanCounter = 0


\* a step of a scan: the timer expiry that starts it, or a step inside it
ScanStep == (pc = "loop" /\ h_expiries' = h_expiries + 1) \/ pc = "scan"

\* C7 as stated: every non-empty scan adds its raw detection count to the
\* daily tally, so that between scans the tally holds the startup value plus
\* all raw detections so far (while the date has not changed).
C7_Original ==
    (pc = "loop" /\ ~h_dateChanged) =>
        dailyImpressions = StartValue + h_detectedTotal

\* C7 (amended): every non-empty scan adds its raw detection count to
\* wifiNetworksThisCycle and to impressionCount and leaves the daily tally
\* alone; the daily tally receives the cycle's raw impression count in
\* reportAnalytics (when that report detects no day change).
C7_RawCounts ==
    /\ [](AtBoundary => (wifiNetworksThisCycle = h_detected
                          /\ impressionCount = h_detected))
    /\ [][ /\ ScanStep => dailyImpressions' = dailyImpressions
           /\ (pc = "report" /\ h_get' = NoGet) =>
                 dailyImpressions' = dailyImpressions + h_detected
         ]_vars

\* a report added a cycle's raw count (above the deduplicated one) to the tally
C7_Witness ==
    /\ pc = "reset" /\ h_get = NoGet
    /\ impressionCount = 2 * MaxFound
    /\ uniqueWifiNetworks = 1
    /\ dailyImpressions = StartValue + impressionCount

\* C8: the daily tally starts at the value the remote store returned at
\* startup when that is error-free and > 0, at 0 otherwise; while the date
\* does not change it equals, after every completed report cycle, that start
\* value plus the raw detections of all cycles, published or not.
C8_DailyResume ==
    /\ (pc = "loop" /\ h_expiries = 0) => dailyImpressions = StartValue
    /\ ((pc = "reset" \/ (pc = "loop" /\ scanCounter = 0)) /\ ~h_dateChanged) =>
          dailyImpressions = StartValue + h_detectedTotal

\* resumed from the remote value, then two cycles, the second not published
C8_Witness ==
    /\ pc = "reset" /\ ~h_dateChanged
    /\ StartValue = RemoteVal
    /\ totalReportsGenerated = 2
    /\ calls = << >>
    /\ h_detected > 0 /\ h_detectedTotal > h_detected
    /\ dailyImpressions = RemoteVal + h_detectedTotal

\* C9: a report that reads a valid date different from the non-empty stored
\* date stores the new date and replaces the daily tally by the remote value
\* for that date when it is error-free and > 0, by 0 otherwise.
C9_DayRollover ==
    [][ (/\ pc = "report"
         /\ h_clock' \in ValidReplies
         /\ currentDate # Str_Empty
         /\ DateOfReply(h_clock') # currentDate) =>
            /\ currentDate' = DateOfReply(h_clock')
            /\ h_get' \in RemoteGets
            /\ dailyImpressions' =
                 IF h_get'.err = FALSE /\ h_get'.val > 0 THEN h_get'.val ELSE 0
      ]_vars

\* a day change with nothing stored remotely dropped a running total
C9_Witness ==
    /\ pc = "reset"
    /\ h_get = [err |-> FALSE, val |-> 0]
    /\ currentDate = DateOfReply(ClockDay2)
    /\ StartValue = RemoteVal /\ impressionCount > 0
    /\ dailyImpressions = 0

\* C10 as stated: a report whose time read fails issues no publish call and
\* leaves the daily tally and the stored date unchanged.
C10_Original ==
    [][ (pc = "report" /\ h_clock' = Str_Empty) =>
            /\ calls' = << >>
            /\ dailyImpressions' = dailyImpressions
            /\ currentDate' = currentDate
      ]_vars

\* C10 (amended): a report whose time read fails issues no publish call and
\* leaves the stored date unchanged; the daily tally grows by the cycle's raw
\* impression count and is not otherwise touched; the rollover and the reset
\* of the cycle counters follow.
C10_TimeUnavailable ==
    [][ /\ (pc = "report" /\ h_clock' = Str_Empty) =>
              /\ calls' = << >>
              /\ dailyImpressions' = dailyImpressions + h_detected
              /\ currentDate' = currentDate
              /\ pc' = "reset"
        /\ (pc = "reset" /\ h_clock = Str_Empty) =>
              /\ pc' = "loop"
              /\ previousCycleHashes' = h_seenThis
              /\ currentCycleHashes' = {}
              /\ wifiNetworksThisCycle' = 0 /\ uniqueWifiNetworks' = 0
              /\ repeatedWifiNetworks' = 0 /\ impressionCount' = 0
              /\ scanCounter' = 0
      ]_vars

C10_Witness ==
    /\ pc = "reset" /\ h_clock = Str_Empty
    /\ appInitialized /\ calls = << >>
    /\ currentDate = DateOfReply(ClockDay1)
    /\ impressionCount > 0 /\ currentCycleHashes # {}

\* the stored dates that a valid clock reply produced
ValidDates == {DateOfReply(t) : t \in ValidReplies}

\* C11 as stated: while no valid date is stored, the first report that reads a
\* valid date stores it, fetches nothing from the remote store and does not
\* reset the daily tally (which holds what it held plus the impressions of the
\* cycle, as after every report).
C11_Original ==
    [][ (/\ pc = "report"
         /\ currentDate \notin ValidDates
         /\ h_clock' \in ValidReplies) =>
            /\ currentDate' = DateOfReply(h_clock')
            /\ h_get' = NoGet
            /\ dailyImpressions' = dailyImpressions + h_detected
      ]_vars

\* the daily-data set calls among the calls of the running report
DailyCalls == SelectSeq(calls, LAMBDA c : c.task = "dailyDataTask")

\* the tally a remote answer resolves a new day to
Resolved(r) == IF r.err = FALSE /\ r.val > 0 THEN r.val ELSE 0

\* C12: whenever a report issues the daily-data set call, a valid date was
\* read in that report, the path and the payload carry that date, and the
\* payload's daily_impressions is the tally after the day-boundary decision:
\* the remote value (or 0) when the date read differs from the stored one, the
\* tally plus the cycle's detections otherwise.
C12_Attribution ==
    [][ (pc = "report" /\ calls' # << >>) =>
            LET call == calls'[1] IN
            /\ call.task = "dailyDataTask"
            /\ h_clock' \in ValidReplies
            /\ call.path = DateOfReply(h_clock')
            /\ call.json.date = DateOfReply(h_clock')
            /\ currentDate' = DateOfReply(h_clock')
            /\ call.json.daily_impressions = dailyImpressions'
            /\ call.json.daily_impressions =
                  IF currentDate # DateOfReply(h_clock')
                  THEN Resolved(h_get')
                  ELSE dailyImpressions + h_detected
      ]_vars

\* a publish on a new day that carries the remote value of that day, not the
\* running total of the day before
C12_Witness ==
    /\ pc = "reset" /\ Len(DailyCalls) = 1
    /\ h_dateChanged /\ h_get = [err |-> FALSE, val |-> RemoteVal]
    /\ DailyCalls[1].path = DateOfReply(ClockDay2)
    /\ DailyCalls[1].json.daily_impressions = RemoteVal
    /\ StartValue = RemoteVal /\ totalReportsGenerated = 2
    /\ impressionCount > 0

\* C13: every entry into the report is followed by the generation rollover and
\* the reset of the cycle, back between scans with scan counter 0, whether
\* the result of the publish is delivered as success, as error, or never, and
\* whether or not a publish was issued; a delivered result changes neither the
\* position in the loop nor what the reset will do.
C13_BackToAccumulating ==
    /\ (pc = "report") ~>
            (/\ pc = "loop" /\ scanCounter = 0
             /\ h_generation = totalReportsGenerated
             /\ currentCycleHashes = {}
             /\ impressionCount = 0 /\ wifiNetworksThisCycle = 0)
    /\ [][ (pc = "reset" /\ pc' = "reset") =>
              (h_ack' # h_ack /\ currentCycleHashes' = currentCycleHashes)
         ]_vars
    /\ [](pc = "report" => h_generation = totalReportsGenerated)

\* back between scans after a publish whose error was delivered
C13_Witness ==
    /\ pc = "loop" /\ scanCounter = 0 /\ h_generation = 1
    /\ h_ack = [uid |-> "dailyDataTask", kind |-> "error"]
    /\ totalScansPerformed = SCANS_PER_UPLOAD
    /\ previousCycleHashes # {}

\* a step in which asyncCB handled a result
CallbackStep == h_ack' # h_ack \/ pending' # pending

\* C14: a report issues at most one daily-data set call; a result handed to
\* asyncCB (success or error) issues no call and changes nothing the next
\* report reads; whether a report publishes depends only on the clock reply
\* it reads, not on the result of an earlier publish or on its absence, and
\* the payload is built from the tally of that report.
C14_AtMostOnce ==
    /\ [](Len(DailyCalls) <= 1)
    /\ [][ /\ (pc \in {"loop", "reset"} /\ pc' = pc /\ CallbackStep) =>
                /\ calls' = calls
                /\ dailyImpressions' = dailyImpressions
                /\ currentDate' = currentDate
                /\ appInitialized' = appInitialized
                /\ scanCounter' = scanCounter
           /\ pc = "report" =>
                /\ (calls' # << >>) = (h_clock' \in ValidReplies)
                /\ calls' # << >> =>
                      calls'[1].json.daily_impressions = dailyImpressions'
         ]_vars

\* the first publish failed, the second report published again
C14_Witness ==
    /\ pc = "reset" /\ totalReportsGenerated = 2
    /\ h_ack = [uid |-> "dailyDataTask", kind |-> "error"]
    /\ "dailyDataTask" \in pending
    /\ Len(DailyCalls) = 1
    /\ DailyCalls[1].json.daily_impressions = dailyImpressions

\* setup() main.cpp:324, 363-371: the app was initialised and was not ready
\* when the startup wait ended
AuthTimedOut == appInitialized /\ h_startGet = NoGet

\* C15 as stated: once remote authentication was not ready after the startup
\* wait, no publish call is issued in any later report of that lifetime.
C15_Original == AuthTimedOut => calls = << >>

\* C15 amended: a startup without authentication skips the resume of the
\* tally and the device-info upload and nothing else: every report tests
\* readiness again, publishes exactly when it read a valid time, which it
\* does only with an initialised app that is ready at that report, also
\* after an authentication timeout at startup.
C15_ReadyPerReport ==
    /\ [](calls # << >> => appInitialized)
    /\ [](AuthTimedOut => "deviceInfoTask" \notin pending)
    /\ [][ /\ (pc = "boot" /\ AuthTimedOut') =>
                (dailyImpressions' = dailyImpressions /\ calls' = << >>)
           /\ pc = "report" =>
                /\ (calls' # << >>) = (h_clock' \in ValidReplies)
                /\ h_clock' # NoClock => appInitialized
                /\ AuthTimedOut' = AuthTimedOut
         ]_vars

\* a report published although the startup wait had ended without
\* authentication
C15_Witness ==
    /\ AuthTimedOut /\ pc = "reset" /\ Len(DailyCalls) = 1
    /\ "deviceInfoTask" \notin pending /\ "dailyDataTask" \in pending
    /\ totalReportsGenerated = 1

\* the generation sets, the cycle counters, the daily tally and the
\* cumulative counters other than the scan count are left alone
ScanErrorFrame ==
    /\ currentCycleHashes' = currentCycleHashes
    /\ previousCycleHashes' = previousCycleHashes
    /\ wifiNetworksThisCycle' = wifiNetworksThisCycle
    /\ uniqueWifiNetworks' = uniqueWifiNetworks
    /\ repeatedWifiNetworks' = repeatedWifiNetworks
    /\ impressionCount' = impressionCount
    /\ totalWifiNetworks' = totalWifiNetworks
    /\ totalReportsGenerated' = totalReportsGenerated
    /\ dailyImpressions' = dailyImpressions
    /\ currentDate' = currentDate

\* C16 as stated: a poll that returns a scan error adds one to the scan-error
\* tally and changes nothing else: sets, cycle counters, cumulative counters
\* (the count of scans among them) and daily tally are unchanged.
C16_Original ==
    [][ h_scanError' =>
          /\ scanErrors' = scanErrors + 1
          /\ ScanErrorFrame
          /\ totalScansPerformed' = totalScansPerformed ]_vars

\* C16 amended: a poll that returns a scan error adds one to the scan-error
\* tally, one to the cumulative count of scans and one to the scan counter of
\* the cycle (it may thereby complete the cycle), and leaves the sets, the
\* other counters and the daily tally unchanged; no other poll touches the
\* scan-error tally.
C16_ErrorPollCounted ==
    [][ /\ h_scanError' =>
              /\ scanErrors' = scanErrors + 1
              /\ totalScansPerformed' = totalScansPerformed + 1
              /\ scanCounter' = scanCounter + 1
              /\ pc' = AfterScan(scanCounter')
              /\ ScanErrorFrame
        /\ (~h_scanError' /\ pc' # "boot") => scanErrors' = scanErrors ]_vars

\* the poll that completed a cycle failed, after polls that found networks
C16_Witness ==
    /\ h_scanError /\ pc = "report" /\ scanErrors = 1
    /\ totalScansPerformed = SCANS_PER_UPLOAD
    /\ currentCycleHashes # {} /\ impressionCount > 0

\* C17: a report whose location refresh fails keeps the last-known latitude
\* and longitude and shows the location status as unresolved, also when a
\* fix had been acquired earlier.
C17_Original ==
    [][ (pc = "report" /\ h_gps' = NoFix) =>
          /\ gpsLatitude' = gpsLatitude
          /\ gpsLongitude' = gpsLongitude
          /\ statusShown' = "SEARCHING" ]_vars

\* C18: within a process lifetime, a step that leaves the stored date
\* unchanged does not decrease the daily tally; the tally is replaced by a
\* smaller value only in a step that changes the stored date.
C18_MonotonicWithinDate ==
    [][ (currentDate' = currentDate /\ pc' # "boot") =>
          dailyImpressions' >= dailyImpressions ]_vars

\* two reports of the same day have added to the tally resumed at startup
C18_Witness ==
    /\ pc = "reset" /\ totalReportsGenerated = 2 /\ ~h_dateChanged
    /\ currentDate = DateOfReply(ClockDay1)
    /\ h_startGet = [err |-> FALSE, val |-> RemoteVal]
    /\ h_clock = ClockDay1
    /\ dailyImpressions = RemoteVal + h_detectedTotal
    /\ h_detectedTotal > h_detected /\ h_detected > 0

\* C19: the end-of-cycle reset sets cycleTotal, cycleUnique, cycleRepeated,
\* the cycle impression count and the scan counter to 0 and leaves
\* cumulativeUniqueTotal, cumulativeScans, cumulativeReports, the daily tally
\* and the stored date unchanged.
C19_ResetFrame ==
    [][ (pc = "reset" /\ pc' = "loop") =>
          /\ wifiNetworksThisCycle' = 0
          /\ uniqueWifiNetworks' = 0
          /\ repeatedWifiNetworks' = 0
          /\ impressionCount' = 0
          /\ scanCounter' = 0
          /\ totalWifiNetworks' = totalWifiNetworks
          /\ totalScansPerformed' = totalScansPerformed
          /\ totalReportsGenerated' = totalReportsGenerated
          /\ dailyImpressions' = dailyImpressions
          /\ currentDate' = currentDate ]_vars

\* after the reset of a cycle that counted networks and published a tally
C19_Witness ==
    /\ pc = "loop" /\ h_generation = 1 /\ totalReportsGenerated = 1
    /\ wifiNetworksThisCycle = 0 /\ uniqueWifiNetworks = 0
    /\ repeatedWifiNetworks = 0 /\ impressionCount = 0 /\ scanCounter = 0
    /\ totalWifiNetworks > 0 /\ dailyImpressions > RemoteVal
    /\ totalScansPerformed = SCANS_PER_UPLOAD
    /\ Cardinality(previousCycleHashes) = 2
    /\ currentDate = DateOfReply(ClockDay1)

\* C20: within a process lifetime, over scans, reports, rollovers and day
\* changes, cumulativeUniqueTotal, cumulativeScans and cumulativeReports
\* never decrease.
C20_CumulativeNeverDecrease ==
    [][ pc' # "boot" =>
          /\ totalWifiNetworks' >= totalWifiNetworks
          /\ totalScansPerformed' >= totalScansPerformed
          /\ totalReportsGenerated' >= totalReportsGenerated ]_vars

\* two rollovers and a day change later the cumulative counters stand
C20_Witness ==
    /\ pc = "loop" /\ h_generation = 2 /\ h_dateChanged
    /\ currentDate = DateOfReply(ClockDay2)
    /\ totalWifiNetworks > 1
    /\ totalScansPerformed = 2 * SCANS_PER_UPLOAD
    /\ totalReportsGenerated = 2
    /\ scanCounter = 0

\* a step in which asyncCB handled the result of a request or an
\* authentication message
Delivered == h_ack' # h_ack /\ h_ack' # NoAck

\* C21: a result delivered to asyncCB (acknowledgment, error, event), at any
\* app.loop() and in any order relative to scans and reports, leaves the
\* generation sets, every cycle and cumulative counter, the daily tally and
\* the stored date unchanged and does not move the scheduler; and the
\* scheduler waits for no callback: with results outstanding the next scan,
\* the report and the reset can each be taken.
C21_CallbackFrame ==
    /\ [][ Delivered =>
              /\ pc' = pc
              /\ currentCycleHashes' = currentCycleHashes
              /\ previousCycleHashes' = previousCycleHashes
              /\ Counters' = Counters
              /\ scanErrors' = scanErrors
              /\ reportCounter' = reportCounter
              /\ currentDate' = currentDate
              /\ calls' = calls ]_vars
    /\ [](pc = "reset" => ENABLED ResetCycle)
    /\ [](pc = "report" => ENABLED reportAnalytics)
    /\ []((pc = "loop" /\ totalScansPerformed < MaxScans) => ENABLED ScanStart)

\* the error of the daily-data request arrived after the next cycle had begun
\* and while the result of the location request was still outstanding
C21_Witness ==
    /\ pc = "loop" /\ h_generation = 1 /\ scanCounter = 1
    /\ h_ack = [uid |-> "dailyDataTask", kind |-> "error"]
    /\ "locationUpdateTask" \in pending /\ "dailyDataTask" \notin pending
    /\ dailyImpressions > 0 /\ previousCycleHashes # {}

CycleStateEmpty ==
    /\ currentCycleHashes = {} /\ previousCycleHashes = {}
    /\ wifiNetworksThisCycle = 0 /\ uniqueWifiNetworks = 0
    /\ repeatedWifiNetworks = 0 /\ impressionCount = 0 /\ scanCounter = 0

\* C23: the restart is taken at the top of a loop iteration, in which then no
\* scan and no report is performed; what the unfinished cycle had detected is
\* discarded: before setup() runs again the salt is at its initialiser, both
\* generation sets are empty and the cycle counters are zero, and setup()
\* draws the salt anew and leaves the sets and cycle counters empty.
C23_SupervisoryRestart ==
    /\ [](pc = "boot" => (CycleStateEmpty /\ ephemeralSalt = 0 /\ calls = << >>))
    /\ [][ /\ pc' = "boot" =>
                /\ pc = "loop"
                /\ h_discarded'.impressions = impressionCount
                /\ totalScansPerformed' = 0 /\ totalReportsGenerated' = 0
           /\ pc = "boot" =>
                /\ pc' = "loop"
                /\ ephemeralSalt' \in Salts
                /\ CycleStateEmpty'
         ]_vars

\* a restart in the middle of a cycle threw detections and fingerprints away
C23_Witness ==
    /\ pc = "boot"
    /\ h_discarded.impressions > 0 /\ h_discarded.fingerprints > 1
    /\ CycleStateEmpty /\ ephemeralSalt = 0

\* hashMAC() main.cpp:471-492 for every salt the global can hold
HashWithSalt == [m \in MACs, s \in Salts \cup {0} |-> hashMAC(m, s)]

\* C24: the salt is written by setup() and by no later step of the lifetime,
\* so every observation is fingerprinted by hashMAC of its identifier and
\* that one salt, and an identifier observed again before the restart gets
\* the fingerprint it got before.
C24_FingerprintStable ==
    [][ /\ (pc # "boot" /\ pc' # "boot") => ephemeralSalt' = ephemeralSalt
        /\ pc = "boot" => ephemeralSalt' \in Salts
        /\ ClassifyStep =>
              \E m \in MACs :
                 /\ h_lastHash' = HashWithSalt[m, ephemeralSalt]
                 /\ h_fingerprintOf'[m] = h_lastHash'
                 /\ h_fingerprintOf[m] \in {Str_Empty, h_lastHash'}
                 /\ \A o \in MACs \ {m} :
                       h_fingerprintOf'[o] = h_fingerprintOf[o]
      ]_vars

\* an identifier of the first cycle is observed again in the third and is
\* found in neither generation set, with the fingerprint it had
C24_Witness ==
    /\ pc = "scan" /\ h_generation = 2 /\ i = 1
    /\ h_lastHash \in h_seenPrev2 \ h_seenPrev
    /\ \E m \in MACs : h_fingerprintOf[m] = h_lastHash
    /\ \A m \in MACs : h_fingerprintOf[m] # Str_Empty
    /\ ephemeralSalt \in Salts

\* C25: a scan classifies at most MAX_NETWORKS_PER_SCAN observations while
\* impressionCount and wifiNetworksThisCycle grow by all it detected, so at
\* every loop boundary uniqueWifiNetworks + repeatedWifiNetworks <=
\* wifiNetworksThisCycle = impressionCount, with equality exactly when no
\* scan of the cycle detected more than the cap.
C25_CapAccounting ==
    /\ pc = "scan" => (i <= MAX_NETWORKS_PER_SCAN /\ i <= networksFound)
    /\ AtBoundary =>
          /\ wifiNetworksThisCycle = impressionCount
          /\ impressionCount = h_detected
          /\ uniqueWifiNetworks + repeatedWifiNetworks = h_processed
          /\ uniqueWifiNetworks + repeatedWifiNetworks <= wifiNetworksThisCycle
          /\ (uniqueWifiNetworks + repeatedWifiNetworks = wifiNetworksThisCycle)
                = ~h_overCap

\* a cycle with one scan over the cap and one within it
C25_Witness ==
    /\ pc = "report" /\ h_overCap
    /\ wifiNetworksThisCycle = MAX_NETWORKS_PER_SCAN + 2
    /\ uniqueWifiNetworks + repeatedWifiNetworks = MAX_NETWORKS_PER_SCAN + 1
    /\ impressionCount = wifiNetworksThisCycle

\* C26: at every loop boundary, after any sequence of scans and rollovers,
\* uniqueWifiNetworks is the number of elements of the current generation
\* set.
C26_UniqueIsSetSize ==
    AtBoundary => uniqueWifiNetworks = Cardinality(currentCycleHashes)

\* in the second cycle both access points were seen, one of them twice
C26_Witness ==
    /\ pc = "report" /\ h_generation = 1
    /\ uniqueWifiNetworks = 2 /\ Cardinality(currentCycleHashes) = 2
    /\ repeatedWifiNetworks = 1 /\ previousCycleHashes # {}

\* C27: at every loop boundary of a cycle, totalWifiNetworks has grown since
\* the cycle began by the number of fingerprints that are in the current set
\* and not in the previous set.
C27_GrowthIsNewFingerprints ==
    AtBoundary =>
        totalWifiNetworks - h_totalAtCycleStart =
            Cardinality(currentCycleHashes \ previousCycleHashes)

\* the second cycle saw one fingerprint of the first cycle and one new one
C27_Witness ==
    /\ pc = "report" /\ h_generation = 1
    /\ Cardinality(currentCycleHashes) = 2
    /\ Cardinality(previousCycleHashes) = 1
    /\ previousCycleHashes \subseteq currentCycleHashes
    /\ totalWifiNetworks - h_totalAtCycleStart = 1
    /\ totalWifiNetworks = 2

\* C28: between two iterations of loop(), 0 <= scanCounter <
\* SCANS_PER_UPLOAD, reportCounter = totalReportsGenerated and
\* totalScansPerformed = SCANS_PER_UPLOAD * totalReportsGenerated +
\* scanCounter; inside the iteration of the K-th scan the counter stands at
\* SCANS_PER_UPLOAD until the reset. Every completed cycle counts a report,
\* also one whose publish was suppressed.
C28_ScanReportAccounting ==
    /\ reportCounter = totalReportsGenerated
    /\ pc \in {"boot", "loop"} =>
          /\ 0 <= scanCounter /\ scanCounter < SCANS_PER_UPLOAD
          /\ totalScansPerformed =
                SCANS_PER_UPLOAD * totalReportsGenerated + scanCounter
    /\ pc = "report" =>
          /\ scanCounter = SCANS_PER_UPLOAD
          /\ totalScansPerformed =
                SCANS_PER_UPLOAD * totalReportsGenerated + scanCounter
    /\ pc = "reset" =>
          /\ scanCounter = SCANS_PER_UPLOAD
          /\ totalScansPerformed = SCANS_PER_UPLOAD * totalReportsGenerated

\* two cycles were completed and counted on a device whose modem never came
\* up, so that neither report published
C28_Witness ==
    /\ pc = "loop" /\ ~appInitialized /\ ephemeralSalt \in Salts
    /\ totalReportsGenerated = 2 /\ scanCounter = 1
    /\ totalScansPerformed = 2 * SCANS_PER_UPLOAD + 1
    /\ dailyImpressions > 0

====
